---- MODULE Spec2Model ----
(***************************************************************************)
(* Verification model of olric's in-memory storage engine                  *)
(* (internal/kvstore/kvstore.go: a chain of fixed-capacity tables) and of  *)
(* the advisory lock protocol built on conditional puts                    *)
(* (internal/dmap/lock.go).                                                *)
(*                                                                         *)
(* Sizes are scaled down: a table holds TableSize cells instead of 65536   *)
(* bytes and an encoded entry takes 6 or 8 cells.  Time is counted in ticks. *)
(***************************************************************************)
EXTENDS Integers, Sequences, FiniteSets, TLC

(***************************************************************************)
(* Bounds of the model.                                                    *)
(***************************************************************************)
\* "TableSize" option handed to New (cells of the first table)
TableSize == 16
\* longest chain on which Put / Delete may still be called
MaxTables == 3
\* allocate-and-retry iterations of one Put that are followed
MaxSpin == 2
\* number of mutating engine calls in one behaviour
MaxOps == 4

\* lock contenders
NumProcs == 2
\* acquire calls in one behaviour (every call draws a new token)
MaxTokens == 3
\* last tick of the clock
MaxTime == 4
\* members of the cluster
NumMembers == 3
\* period of the retry timer of tryLock, in ticks
PollPeriod == 2

\* minimumSize, the default of the "TableSize" option, on the scale of the model
minimumSize == TableSize

HKeys == {11, 12}

\* results of the readers: (value, error)
NotFound == [val |-> <<>>, err |-> "KeyNotFound"]
Found(x) == [val |-> <<x>>, err |-> "nil"]

\* nil bytes, no engine
Nil == <<>>

\* the key string that hashes to hkey h
KeyOf(h) == <<h>>

\* the entries a caller stores under hkey h: key string, value bytes,
\* timestamp, TTL (0 = no expiry)
EntriesOf(h) ==
    {[key |-> KeyOf(h), value |-> <<7>>, ttl |-> 0, timestamp |-> 3],
     [key |-> KeyOf(h), value |-> <<8, 9, 10>>, ttl |-> 5, timestamp |-> 4]}

VARIABLES
    tables,     \* KVStore.tables: the chain, oldest first
    kvOp,       \* the engine call that ran last
    kvArg,      \* its hkey argument
    kvErr,      \* its error result
    blob,       \* bytes returned by the last Export
    fresh,      \* chain of the engine returned by the last Import
    calls,      \* the invocations of the callback made by the last Range
    lastPut,    \* history: hkey -> entry of the last Put not followed by a Delete,
                \* with the TTL and timestamp of a later UpdateTTL
    nops        \* history: number of mutating engine calls so far

kvVars == <<tables, kvOp, kvArg, kvErr, blob, fresh, calls, lastPut, nops>>

VARIABLES
    now,        \* the clock, in ticks
    store,      \* the owner's entry under the lock key: <<>> or <<[value, expire]>>
    locker,     \* holder of the fine-grained locker on dmap-name + key, 0 = free
    shutdown,   \* dm.s.ctx is done
    lpc,        \* per contender: where its call stands
    call,       \* per contender: token, ttl, deadline and timer of the call
    handle,     \* per contender: token of the LockContext it got last, 0 = none
    ret,        \* per contender: result of the last call
    nextTok,    \* the next token rand.Read produces
    grant,      \* history: per token, state and expiry of the handle carrying it
    heldAll,    \* history: the key was held during the whole acquire call so far
    sawOther    \* history: another token was stored when Unlock was called

lockVars == <<now, store, locker, shutdown, lpc, call, handle, ret, nextTok,
              grant, heldAll, sawOther>>

VARIABLES
    owner,      \* the member that owns the partition of the lock key now
    frag,       \* per member: the entry under the lock key in its fragment
    rhandle,    \* the LockContext of the caller: token, and (history) the owner
                \* at the acquire and whether an Unlock released it
    rto,        \* the member the Unlock under way was routed to, 0 = no call
    rret,       \* result of the last Unlock of the caller
    rtok,       \* the next token rand.Read produces for the caller
    fate,       \* history: what the partition moves did to the entry of rhandle
    raced       \* history: the partition moved while the Unlock was under way

routeVars == <<owner, frag, rhandle, rto, rret, rtok, fate, raced>>

VARIABLES
    cmd,        \* the put command the handler served last
    conf,       \* the putConfig the handler built for it
    creply,     \* what the handler wrote to the connection
    cstore      \* the entry under the key of the command: <<>> or <<[value, ttl]>>

cmdVars == <<cmd, conf, creply, cstore>>

(***************************************************************************)
(* Table: a slab of cells with an index from hkey to the offset of the     *)
(* entry frame.  A frame is  klen | key | ttl | timestamp | vlen | value.  *)
(***************************************************************************)
EmptyIndex == [h \in {} |-> 0]

newTable(size) ==
    [hkeys |-> EmptyIndex, memory |-> [i \in 1..size |-> 0],
     offset |-> 0, inuse |-> 0, garbage |-> 0, allocated |-> size]

Encode(e) == <<Len(e.key)>> \o e.key \o <<e.ttl, e.timestamp, Len(e.value)>> \o e.value

\* cells of memory m from offset off (0-based), n of them
Slice(m, off, n) == [i \in 1..n |-> m[off + i]]

KLenAt(m, off) == m[off + 1]
VLenAt(m, off) == m[off + 1 + KLenAt(m, off) + 3]
FrameLen(m, off) == 1 + KLenAt(m, off) + 3 + VLenAt(m, off)

RawAt(m, off) == Slice(m, off, FrameLen(m, off))
KeyAt(m, off) == Slice(m, off + 1, KLenAt(m, off))
TTLAt(m, off) == m[off + 1 + KLenAt(m, off) + 1]
TimestampAt(m, off) == m[off + 1 + KLenAt(m, off) + 2]
ValueAt(m, off) == Slice(m, off + 1 + KLenAt(m, off) + 3, VLenAt(m, off))

Decode(m, off) ==
    [key |-> KeyAt(m, off), value |-> ValueAt(m, off),
     ttl |-> TTLAt(m, off), timestamp |-> TimestampAt(m, off)]

Has(t, h) == h \in DOMAIN t.hkeys

\* index of t without hkey h
DropKey(t, h) == [k \in (DOMAIN t.hkeys) \ {h} |-> t.hkeys[k]]

\* table.putRaw succeeds only when the frame fits behind the write cursor
TableFits(t, frame) == t.offset + Len(frame) <= t.allocated

TablePutRaw(t, h, frame) ==
    LET prior == IF Has(t, h) THEN FrameLen(t.memory, t.hkeys[h]) ELSE 0
        n == Len(frame)
    IN [hkeys |-> [k \in (DOMAIN t.hkeys) \cup {h} |->
                      IF k = h THEN t.offset ELSE t.hkeys[k]],
        memory |-> [i \in 1..t.allocated |->
                      IF i > t.offset /\ i <= t.offset + n
                      THEN frame[i - t.offset] ELSE t.memory[i]],
        offset |-> t.offset + n,
        inuse |-> t.inuse - prior + n,
        garbage |-> t.garbage + prior,
        allocated |-> t.allocated]

TableDelete(t, h) ==
    LET n == FrameLen(t.memory, t.hkeys[h])
    IN [t EXCEPT !.hkeys = DropKey(t, h),
                 !.garbage = t.garbage + n,
                 !.inuse = t.inuse - n]

\* table.updateTTL: the TTL and the timestamp of the frame are overwritten
\* where they are
TableUpdateTTL(t, h, d) ==
    LET off == t.hkeys[h]
        k == KLenAt(t.memory, off)
    IN [t EXCEPT !.memory = [i \in 1..t.allocated |->
                                IF i = off + 1 + k + 1 THEN d.ttl
                                ELSE IF i = off + 1 + k + 2 THEN d.timestamp
                                ELSE t.memory[i]]]

(***************************************************************************)
(* KVStore                                                                 *)
(***************************************************************************)
RECURSIVE SumInuse(_, _)
SumInuse(ts, i) == IF i = 0 THEN 0 ELSE ts[i].inuse + SumInuse(ts, i - 1)

Inuse(ts) == SumInuse(ts, Len(ts))

New(size) == <<newTable(size)>>

\* a loop that returns nil although it appended a table
RECURSIVE PutLoopKeepsNil(_, _, _, _, _)
PutLoopKeepsNil(ts, h, frame, res, spin) ==
    LET t == ts[Len(ts)]
    IN IF TableFits(t, frame)
       THEN [tables |-> [ts EXCEPT ![Len(ts)] = TablePutRaw(t, h, frame)], err |-> res]
       ELSE IF spin = 0
            THEN [tables |-> ts, err |-> "running"]
            ELSE PutLoopKeepsNil(Append(ts, newTable(Inuse(ts) * 2)), h, frame, res, spin - 1)

\* a loop that puts the table it allocates in front of the chain
PutLoopPrepend(ts, h, frame, res, spin) ==
    LET t == ts[Len(ts)]
        nt == newTable(Inuse(ts) * 2)
    IN IF TableFits(t, frame)
       THEN [tables |-> [ts EXCEPT ![Len(ts)] = TablePutRaw(t, h, frame)], err |-> res]
       ELSE IF TableFits(nt, frame)
            THEN [tables |-> <<TablePutRaw(nt, h, frame)>> \o ts, err |-> "Fragmented"]
            ELSE [tables |-> ts, err |-> "running"]

\* a loop that writes into the oldest table with room for the frame
PutLoopFirstFit(ts, h, frame, res, spin) ==
    LET t == ts[Len(ts)]
        nt == newTable(Inuse(ts) * 2)
        room == {i \in 1..Len(ts) : TableFits(ts[i], frame)}
    IN IF room # {}
       THEN LET i == CHOOSE i \in room : \A j \in room : i <= j
            IN [tables |-> [ts EXCEPT ![i] = TablePutRaw(ts[i], h, frame)], err |-> res]
       ELSE IF TableFits(nt, frame)
            THEN [tables |-> Append(ts, TablePutRaw(nt, h, frame)), err |-> "Fragmented"]
            ELSE [tables |-> ts, err |-> "running"]

\* the for-loop of Put / PutRaw; res is the error to return, spin counts the
\* allocate-and-retry iterations that are still followed
RECURSIVE PutLoop(_, _, _, _, _)
PutLoop(ts, h, frame, res, spin) ==
    LET t == ts[Len(ts)]
    IN IF TableFits(t, frame)
       THEN [tables |-> [ts EXCEPT ![Len(ts)] = TablePutRaw(t, h, frame)], err |-> res]
       ELSE IF spin = 0
            THEN [tables |-> ts, err |-> "running"]
            ELSE PutLoop(Append(ts, newTable(Inuse(ts) * 2)), h, frame, "Fragmented", spin - 1)

KVPut(ts, h, e) == PutLoop(ts, h, Encode(e), "nil", MaxSpin)

KVPutRaw(ts, h, raw) == PutLoop(ts, h, raw, "nil", MaxSpin)

\* a scan that starts at the oldest table
ScanOldestFirst(ts, h, i) ==
    IF \E j \in 1..i : Has(ts[j], h)
    THEN CHOOSE j \in 1..i : Has(ts[j], h) /\ \A k \in 1..(j - 1) : ~Has(ts[k], h)
    ELSE 0

\* newest-to-oldest scan shared by the readers: index of the table that
\* answers for h, 0 when every table says "previous"
RECURSIVE ScanFrom(_, _, _)
ScanFrom(ts, h, i) ==
    IF i = 0 THEN 0
    ELSE IF Has(ts[i], h) THEN i ELSE ScanFrom(ts, h, i - 1)

GetRaw(ts, h) ==
    LET i == ScanFrom(ts, h, Len(ts))
    IN IF i = 0 THEN NotFound ELSE Found(RawAt(ts[i].memory, ts[i].hkeys[h]))

Get(ts, h) ==
    LET i == ScanFrom(ts, h, Len(ts))
    IN IF i = 0 THEN NotFound ELSE Found(Decode(ts[i].memory, ts[i].hkeys[h]))

GetTTL(ts, h) ==
    LET i == ScanFrom(ts, h, Len(ts))
    IN IF i = 0 THEN NotFound ELSE Found(TTLAt(ts[i].memory, ts[i].hkeys[h]))

GetKey(ts, h) ==
    LET i == ScanFrom(ts, h, Len(ts))
    IN IF i = 0 THEN NotFound ELSE Found(KeyAt(ts[i].memory, ts[i].hkeys[h]))

\* the scan of Delete: the first table that holds h deletes it, then break
RECURSIVE DeleteScan(_, _, _)
DeleteScan(ts, h, i) ==
    IF i = 0 THEN ts
    ELSE IF Has(ts[i], h)
         THEN [ts EXCEPT ![i] = TableDelete(ts[i], h)]
         ELSE DeleteScan(ts, h, i - 1)

\* a comparison with < in place of <=
OverGarbageRatioStrict(t) == 2 * t.allocated < 5 * t.garbage

\* float64(t.allocated)*maxGarbageRatio <= float64(t.garbage), ratio 0.40
OverGarbageRatio(t) == 2 * t.allocated <= 5 * t.garbage

\* a Delete that drops the newest table of a longer chain once it is empty
KVDeleteDropsEmpty(ts, h) ==
    LET ds == DeleteScan(ts, h, Len(ts))
    IN IF Len(ds) # 1
       THEN [tables |-> IF DOMAIN ds[Len(ds)].hkeys = {}
                        THEN SubSeq(ds, 1, Len(ds) - 1) ELSE ds,
             err |-> "nil"]
       ELSE IF OverGarbageRatio(ds[1])
            THEN [tables |-> Append(ds, newTable(Inuse(ds) * 2)), err |-> "Fragmented"]
            ELSE [tables |-> ds, err |-> "nil"]

\* a Delete that clears the garbage counter of the table it found fragmented
KVDeleteClearsGarbage(ts, h) ==
    LET ds == DeleteScan(ts, h, Len(ts))
    IN IF Len(ds) # 1
       THEN [tables |-> ds, err |-> "nil"]
       ELSE IF OverGarbageRatio(ds[1])
            THEN [tables |-> Append([ds EXCEPT ![1].garbage = 0], newTable(Inuse(ds) * 2)),
                  err |-> "Fragmented"]
            ELSE [tables |-> ds, err |-> "nil"]

KVDelete(ts, h) ==
    LET ds == DeleteScan(ts, h, Len(ts))
    IN IF Len(ds) # 1
       THEN [tables |-> ds, err |-> "nil"]
       ELSE IF OverGarbageRatio(ds[1])
            THEN [tables |-> Append(ds, newTable(Inuse(ds) * 2)), err |-> "Fragmented"]
            ELSE [tables |-> ds, err |-> "nil"]

\* the scan of UpdateTTL: the first table, from the newest, that holds h
\* updates its entry
RECURSIVE KVUpdateTTLFrom(_, _, _, _)
KVUpdateTTLFrom(ts, h, d, i) ==
    IF i = 0 THEN [tables |-> ts, err |-> "KeyNotFound"]
    ELSE IF Has(ts[i], h)
         THEN [tables |-> [ts EXCEPT ![i] = TableUpdateTTL(ts[i], h, d)], err |-> "nil"]
         ELSE KVUpdateTTLFrom(ts, h, d, i - 1)

KVUpdateTTL(ts, h, d) == KVUpdateTTLFrom(ts, h, d, Len(ts))

\* the inner loop of Range over one table: the hkeys handed to f, in the
\* iteration order of the index, up to the first one for which f returns
\* false; that break leaves the loop over this table
RECURSIVE RangeTable(_, _, _, _)
RangeTable(i, order, f, n) ==
    IF n > Len(order) THEN <<>>
    ELSE IF ~f[order[n]]
         THEN <<[table |-> i, hkey |-> order[n]]>>
         ELSE <<[table |-> i, hkey |-> order[n]]>> \o RangeTable(i, order, f, n + 1)

\* the outer loop of Range, from the newest table to the oldest
RECURSIVE KVRangeFrom(_, _, _, _)
KVRangeFrom(ts, orders, f, i) ==
    IF i = 0 THEN <<>>
    ELSE RangeTable(i, orders[i], f, 1) \o KVRangeFrom(ts, orders, f, i - 1)

KVRange(ts, orders, f) == KVRangeFrom(ts, orders, f, Len(ts))

\* the loops of MatchOnKey, from the newest table to the oldest: the hkeys
\* whose key the expression matches are handed to f, up to the first one for
\* which f returns false; that return leaves MatchOnKey
RECURSIVE MatchScan(_, _, _, _, _, _)
MatchScan(ts, orders, expr, f, i, n) ==
    IF i = 0 THEN <<>>
    ELSE IF n > Len(orders[i]) THEN MatchScan(ts, orders, expr, f, i - 1, 1)
    ELSE LET h == orders[i][n]
         IN IF KeyAt(ts[i].memory, ts[i].hkeys[h]) \notin expr.keys
            THEN MatchScan(ts, orders, expr, f, i, n + 1)
            ELSE IF ~f[h]
                 THEN <<[table |-> i, hkey |-> h]>>
                 ELSE <<[table |-> i, hkey |-> h]>> \o MatchScan(ts, orders, expr, f, i, n + 1)

KVMatchOnKey(ts, orders, expr, f) ==
    IF ~expr.compiles THEN [calls |-> <<>>, err |-> "regexp"]
    ELSE [calls |-> MatchScan(ts, orders, expr, f, Len(ts), 1), err |-> "nil"]

RECURSIVE SumLen(_, _)
SumLen(ts, i) == IF i = 0 THEN 0 ELSE Cardinality(DOMAIN ts[i].hkeys) + SumLen(ts, i - 1)

KVLen(ts) == SumLen(ts, Len(ts))

RECURSIVE SumAllocated(_, _)
SumAllocated(ts, i) == IF i = 0 THEN 0 ELSE ts[i].allocated + SumAllocated(ts, i - 1)

RECURSIVE SumGarbage(_, _)
SumGarbage(ts, i) == IF i = 0 THEN 0 ELSE ts[i].garbage + SumGarbage(ts, i - 1)

Stats(ts) ==
    [allocated |-> SumAllocated(ts, Len(ts)), inuse |-> SumInuse(ts, Len(ts)),
     garbage |-> SumGarbage(ts, Len(ts))]

(***************************************************************************)
(* Export / Import.  The transport struct is serialized field by field,    *)
(* every variable-length field behind its length; the index is written in  *)
(* the iteration order of the map, which the caller cannot choose.         *)
(***************************************************************************)
Transport(t) ==
    [HKeys |-> t.hkeys,
     Memory |-> [i \in 1..(t.offset + 1) |-> IF i <= t.offset THEN t.memory[i] ELSE 0],
     Offset |-> t.offset, Allocated |-> t.allocated,
     Inuse |-> t.inuse, Garbage |-> t.garbage]

\* the orders in which the keys of an index can be iterated
Orders(S) == {o \in [1..Cardinality(S) -> S] : \A i, j \in DOMAIN o : i # j => o[i] # o[j]}

RECURSIVE MarshalIndex(_, _, _)
MarshalIndex(idx, order, i) ==
    IF i > Len(order) THEN <<>>
    ELSE <<order[i], idx[order[i]]>> \o MarshalIndex(idx, order, i + 1)

Marshal(tr, order) ==
    <<Len(order)>> \o MarshalIndex(tr.HKeys, order, 1)
        \o <<Len(tr.Memory)>> \o tr.Memory
        \o <<tr.Offset, tr.Allocated, tr.Inuse, tr.Garbage>>

Unmarshal(data) ==
    LET n == data[1]
        keys == {data[2 * i] : i \in 1..n}
        mlen == data[2 * n + 2]
        rest == 2 * n + 2 + mlen
    IN [HKeys |-> [k \in keys |-> data[1 + (CHOOSE i \in 1..n : data[2 * i] = k) * 2]],
        Memory |-> Slice(data, 2 * n + 2, mlen),
        Offset |-> data[rest + 1], Allocated |-> data[rest + 2],
        Inuse |-> data[rest + 3], Garbage |-> data[rest + 4]]

\* Export without the check of the chain length
ExportAnyChain(ts, order) ==
    [tables |-> ts, bytes |-> Marshal(Transport(ts[1]), order), err |-> "nil"]

KVExport(ts, order) ==
    IF Len(ts) # 1
    THEN [tables |-> ts, bytes |-> Nil, err |-> "Fragmented"]
    ELSE [tables |-> ts, bytes |-> Marshal(Transport(ts[1]), order), err |-> "nil"]

\* Import that leaves the garbage counter of the fresh table at zero
ImportNoGarbage(data) ==
    LET tr == Unmarshal(data)
        t == New(tr.Allocated)[1]
    IN <<[hkeys |-> tr.HKeys,
          memory |-> [i \in 1..t.allocated |->
                        IF i <= Len(tr.Memory) THEN tr.Memory[i] ELSE t.memory[i]],
          offset |-> tr.Offset, inuse |-> tr.Inuse, garbage |-> t.garbage,
          allocated |-> t.allocated]>>

\* an Import that takes the write cursor from the length of the memory it
\* received
ImportCursorFromMemory(data) ==
    LET tr == Unmarshal(data)
        t == New(tr.Allocated)[1]
    IN <<[hkeys |-> tr.HKeys,
          memory |-> [i \in 1..t.allocated |->
                        IF i <= Len(tr.Memory) THEN tr.Memory[i] ELSE t.memory[i]],
          offset |-> Len(tr.Memory), inuse |-> tr.Inuse, garbage |-> tr.Garbage,
          allocated |-> t.allocated]>>

KVImport(data) ==
    LET tr == Unmarshal(data)
        t == New(tr.Allocated)[1]
    IN <<[hkeys |-> tr.HKeys,
          memory |-> [i \in 1..t.allocated |->
                        IF i <= Len(tr.Memory) THEN tr.Memory[i] ELSE t.memory[i]],
          offset |-> tr.Offset, inuse |-> tr.Inuse, garbage |-> tr.Garbage,
          allocated |-> t.allocated]>>

(***************************************************************************)
(* Engine calls as actions.  A Put whose loop does not come back leaves    *)
(* kvErr = "running": the caller holds the engine from then on.            *)
(***************************************************************************)
\* the "TableSize" options an engine is created with
TableSizes == {TableSize, TableSize + 4}

InitKV ==
    /\ \E size \in TableSizes : tables = New(size)
    /\ kvOp = "New"
    /\ kvArg = 0
    /\ kvErr = "nil"
    /\ blob = Nil
    /\ fresh = Nil
    /\ calls = Nil
    /\ lastPut = [h \in HKeys |-> <<>>]
    /\ nops = 0

CanCall == kvErr # "running" /\ nops < MaxOps

\* the chain is not followed beyond MaxTables
WithinChain(frame) == Len(tables) < MaxTables \/ TableFits(tables[Len(tables)], frame)

Put(h, e) ==
    /\ CanCall
    /\ WithinChain(Encode(e))
    /\ LET r == KVPut(tables, h, e)
       IN /\ tables' = r.tables
          /\ kvErr' = r.err
          /\ lastPut' = IF r.err = "running" THEN lastPut ELSE [lastPut EXCEPT ![h] = <<e>>]
    /\ kvOp' = "Put"
    /\ kvArg' = h
    /\ blob' = Nil
    /\ fresh' = Nil
    /\ calls' = Nil
    /\ nops' = nops + 1
    /\ UNCHANGED <<lockVars, routeVars, cmdVars>>

PutRaw(h, e) ==
    /\ CanCall
    /\ WithinChain(Encode(e))
    /\ LET r == KVPutRaw(tables, h, Encode(e))
       IN /\ tables' = r.tables
          /\ kvErr' = r.err
          /\ lastPut' = IF r.err = "running" THEN lastPut ELSE [lastPut EXCEPT ![h] = <<e>>]
    /\ kvOp' = "PutRaw"
    /\ kvArg' = h
    /\ blob' = Nil
    /\ fresh' = Nil
    /\ calls' = Nil
    /\ nops' = nops + 1
    /\ UNCHANGED <<lockVars, routeVars, cmdVars>>

Delete(h) ==
    /\ CanCall
    /\ LET r == KVDelete(tables, h)
       IN /\ tables' = r.tables
          /\ kvErr' = r.err
    /\ lastPut' = [lastPut EXCEPT ![h] = <<>>]
    /\ kvOp' = "Delete"
    /\ kvArg' = h
    /\ blob' = Nil
    /\ fresh' = Nil
    /\ calls' = Nil
    /\ nops' = nops + 1
    /\ UNCHANGED <<lockVars, routeVars, cmdVars>>

Export ==
    /\ kvErr # "running"
    /\ \E order \in Orders(DOMAIN tables[1].hkeys) :
          LET r == KVExport(tables, order)
          IN /\ tables' = r.tables
             /\ blob' = r.bytes
             /\ kvErr' = r.err
    /\ kvOp' = "Export"
    /\ kvArg' = 0
    /\ fresh' = Nil
    /\ calls' = Nil
    /\ UNCHANGED <<lastPut, nops>>
    /\ UNCHANGED <<lockVars, routeVars, cmdVars>>

Import ==
    /\ kvOp = "Export"
    /\ blob # Nil
    /\ fresh' = KVImport(blob)
    /\ kvOp' = "Import"
    /\ kvErr' = "nil"
    /\ UNCHANGED <<tables, kvArg, blob, calls, lastPut, nops>>
    /\ UNCHANGED <<lockVars, routeVars, cmdVars>>

\* the TTL and timestamp a caller hands to UpdateTTL
TTLUpdates == {[ttl |-> 9, timestamp |-> 6]}

UpdateTTL(h, d) ==
    /\ CanCall
    /\ LET r == KVUpdateTTL(tables, h, d)
       IN /\ tables' = r.tables
          /\ kvErr' = r.err
          /\ lastPut' = IF r.err = "nil" /\ lastPut[h] # <<>>
                        THEN [lastPut EXCEPT ![h] =
                                 <<[lastPut[h][1] EXCEPT !.ttl = d.ttl,
                                                         !.timestamp = d.timestamp]>>]
                        ELSE lastPut
    /\ kvOp' = "UpdateTTL"
    /\ kvArg' = h
    /\ blob' = Nil
    /\ fresh' = Nil
    /\ calls' = Nil
    /\ nops' = nops + 1
    /\ UNCHANGED <<lockVars, routeVars, cmdVars>>

\* the callbacks handed to Range: f returns false for the hkey stop (0: never)
Callback(stop) == [h \in HKeys |-> h # stop]

\* one iteration order for the index of every table of the chain
IndexOrders(ts) ==
    {o \in [1..Len(ts) -> UNION {Orders(DOMAIN ts[i].hkeys) : i \in 1..Len(ts)}] :
        \A i \in 1..Len(ts) : o[i] \in Orders(DOMAIN ts[i].hkeys)}

Range(stop) ==
    /\ kvErr # "running"
    /\ \E orders \in IndexOrders(tables) :
          calls' = KVRange(tables, orders, Callback(stop))
    /\ kvOp' = "Range"
    /\ kvArg' = stop
    /\ kvErr' = "nil"
    /\ blob' = Nil
    /\ fresh' = Nil
    /\ UNCHANGED <<tables, lastPut, nops>>
    /\ UNCHANGED <<lockVars, routeVars, cmdVars>>

\* the expressions handed to MatchOnKey: whether regexp.Compile accepts the
\* expression, and the keys it matches (one that matches the key of hkey 12
\* only, one that does not compile)
Exprs ==
    {[compiles |-> TRUE, keys |-> {KeyOf(12)}],
     [compiles |-> FALSE, keys |-> {}]}

\* the callbacks handed to MatchOnKey: f returns false for the hkey stop
\* (0: never); with the expressions above f is called on hkey 12 only
MatchStops == {0, 12}

MatchOnKey(expr, stop) ==
    /\ kvErr # "running"
    /\ \E orders \in IndexOrders(tables) :
          LET r == KVMatchOnKey(tables, orders, expr, Callback(stop))
          IN /\ calls' = r.calls
             /\ kvErr' = r.err
    /\ kvOp' = "MatchOnKey"
    /\ kvArg' = stop
    /\ blob' = Nil
    /\ fresh' = Nil
    /\ UNCHANGED <<tables, lastPut, nops>>
    /\ UNCHANGED <<lockVars, routeVars, cmdVars>>

NextKV ==
    \/ \E h \in HKeys : \E e \in EntriesOf(h) : Put(h, e)
    \/ \E h \in HKeys : \E e \in EntriesOf(h) : PutRaw(h, e)
    \/ \E h \in HKeys : Delete(h)
    \/ \E h \in HKeys : \E d \in TTLUpdates : UpdateTTL(h, d)
    \/ \E stop \in HKeys \cup {0} : Range(stop)
    \/ \E expr \in Exprs : \E stop \in MatchStops : MatchOnKey(expr, stop)
    \/ Export
    \/ Import

(***************************************************************************)
(* DMap: conditional put, get and delete on the owner of the lock key.     *)
(* An entry is live while its expiry (0 = none) lies in the future; an     *)
(* expired entry is absent for readers and for IfNotFound.                 *)
(***************************************************************************)
Procs == 1..NumProcs
Tokens == 1..MaxTokens

\* TTL of Lock: no expiry
nilTimeout == 0
\* TTLs handed to LockWithTimeout and deadlines handed to both, in ticks
LockTTLs == {2}
Deadlines == {1, 4}

\* a value no token equals, written by a put outside the lock protocol
OtherValue == 0

Live(st, t) == st # <<>> /\ (st[1].expire = 0 \/ t < st[1].expire)

ExpireAt(ttl, t) == IF ttl = nilTimeout THEN 0 ELSE t + ttl

\* put with the IfNotFound condition
dmPutIfNotFound(st, value, ttl, t) ==
    IF Live(st, t)
    THEN [store |-> st, err |-> "KeyFound"]
    ELSE [store |-> <<[value |-> value, expire |-> ExpireAt(ttl, t)]>>, err |-> "nil"]

\* put without condition
dmPutAlways(st, value, ttl, t) ==
    [store |-> <<[value |-> value, expire |-> ExpireAt(ttl, t)]>>, err |-> "nil"]

dmGet(st, t) ==
    IF Live(st, t) THEN [val |-> <<st[1].value>>, err |-> "nil"] ELSE NotFound

dmDeleteKey(st) == [store |-> <<>>, err |-> "nil"]

(***************************************************************************)
(* Lock protocol                                                           *)
(***************************************************************************)
NoCall == [token |-> 0, ttl |-> 0, ctxAt |-> 0, timerAt |-> 0, latePuts |-> 0,
           gonePuts |-> 0]
\* gonePuts (history): the puts of the call made after the shutdown signal
\* result of a call; for an acquire that waited also the ticks between its
\* deadline and its return, the puts it made after the deadline and whether
\* the key was held all the time (history)
NoRet == [op |-> "none", err |-> "none", late |-> 0, latePuts |-> 0, held |-> FALSE]
NoGrant == [state |-> "none", expire |-> 0]

InitLock ==
    /\ now = 0
    /\ store = <<>>
    /\ locker = 0
    /\ shutdown = FALSE
    /\ lpc = [p \in Procs |-> "idle"]
    /\ call = [p \in Procs |-> NoCall]
    /\ handle = [p \in Procs |-> 0]
    /\ ret = [p \in Procs |-> NoRet]
    /\ nextTok = 1
    /\ grant = [t \in Tokens |-> NoGrant]
    /\ heldAll = [p \in Procs |-> FALSE]
    /\ sawOther = [p \in Procs |-> FALSE]

\* history: a call in its select stays "held throughout" while the entry is live
TrackHeld == heldAll' = [q \in Procs |-> lpc'[q] = "select" /\ heldAll[q] /\ Live(store', now')]

\* the channels of the select in tryLock
TimerReady(p) == now >= call[p].timerAt
\* a context that is done as soon as it is created
CtxDoneAtOnce(p) == TRUE
CtxDone(p) == now >= call[p].ctxAt
\* a select without the case for the shutdown signal
ServerGoneNever == FALSE

ServerGone == shutdown

Ready(p) == lpc[p] = "select" /\ (TimerReady(p) \/ CtxDone(p) \/ ServerGone)

\* tryLock returns nil: lockKey hands out the LockContext
Acquired(p, token, ttl, waited) ==
    /\ lpc' = [lpc EXCEPT ![p] = "idle"]
    /\ call' = [call EXCEPT ![p] = NoCall]
    /\ handle' = [handle EXCEPT ![p] = token]
    /\ ret' = [ret EXCEPT ![p] = [op |-> "Lock", err |-> "nil",
                                  late |-> IF waited THEN now - call[p].ctxAt ELSE 0,
                                  latePuts |-> call[p].latePuts,
                                  held |-> waited /\ heldAll[p]]]
    /\ grant' = [grant EXCEPT ![token] = [state |-> "held", expire |-> ExpireAt(ttl, now)]]

\* tryLock returns an error: lockKey returns no LockContext
Failed(p, err) ==
    /\ lpc' = [lpc EXCEPT ![p] = "idle"]
    /\ call' = [call EXCEPT ![p] = NoCall]
    /\ ret' = [ret EXCEPT ![p] = [op |-> "Lock", err |-> err,
                                  late |-> now - call[p].ctxAt,
                                  latePuts |-> call[p].latePuts,
                                  held |-> heldAll[p]]]
    /\ UNCHANGED <<handle, grant>>

\* lockKey up to the select of tryLock: token, env, first put
lockKey(p, ttl, deadline) ==
    /\ lpc[p] = "idle"
    /\ ~shutdown
    /\ nextTok <= MaxTokens
    /\ now + deadline <= MaxTime
    /\ LET token == nextTok
           r == dmPutIfNotFound(store, token, ttl, now)
       IN /\ store' = r.store
          /\ nextTok' = nextTok + 1
          /\ IF r.err = "nil"
             THEN Acquired(p, token, ttl, FALSE)
             ELSE /\ lpc' = [lpc EXCEPT ![p] = "select"]
                  /\ call' = [call EXCEPT ![p] = [token |-> token, ttl |-> ttl,
                                                  ctxAt |-> now + deadline,
                                                  timerAt |-> now + PollPeriod,
                                                  latePuts |-> 0,
                                                  gonePuts |-> 0]]
                  /\ ret' = [ret EXCEPT ![p] = [NoRet EXCEPT !.op = "Lock", !.err = "waiting"]]
                  /\ UNCHANGED <<handle, grant>>
          /\ heldAll' = [q \in Procs |-> IF q = p THEN r.err = "KeyFound"
                                         ELSE lpc[q] = "select" /\ heldAll[q]
                                                /\ Live(r.store, now)]
    /\ sawOther' = [sawOther EXCEPT ![p] = FALSE]
    /\ UNCHANGED <<now, locker, shutdown, kvVars, routeVars, cmdVars>>

Lock(p, deadline) == lockKey(p, nilTimeout, deadline)

LockWithTimeout(p, ttl, deadline) == lockKey(p, ttl, deadline)

\* a retry that puts the token without the timeout of the lock
TimerFireNoTTL(p) ==
    /\ lpc[p] = "select"
    /\ TimerReady(p)
    /\ LET r == dmPutIfNotFound(store, call[p].token, nilTimeout, now)
       IN /\ store' = r.store
          /\ IF r.err = "KeyFound"
             THEN /\ call' = [call EXCEPT ![p].timerAt = now + PollPeriod,
                                           ![p].latePuts =
                                               IF now >= call[p].ctxAt THEN @ + 1 ELSE @,
                                           ![p].gonePuts =
                                               IF shutdown THEN @ + 1 ELSE @]
                  /\ UNCHANGED <<lpc, handle, ret, grant>>
             ELSE Acquired(p, call[p].token, call[p].ttl, TRUE)
    /\ UNCHANGED <<now, locker, shutdown, nextTok, sawOther, kvVars, routeVars, cmdVars>>
    /\ TrackHeld

\* case <-timer.C: put again; KeyFound resets the timer and selects again
TimerFire(p) ==
    /\ lpc[p] = "select"
    /\ TimerReady(p)
    /\ LET r == dmPutIfNotFound(store, call[p].token, call[p].ttl, now)
       IN /\ store' = r.store
          /\ IF r.err = "KeyFound"
             THEN /\ call' = [call EXCEPT ![p].timerAt = now + PollPeriod,
                                           ![p].latePuts =
                                               IF now >= call[p].ctxAt THEN @ + 1 ELSE @,
                                           ![p].gonePuts =
                                               IF shutdown THEN @ + 1 ELSE @]
                  /\ UNCHANGED <<lpc, handle, ret, grant>>
             ELSE Acquired(p, call[p].token, call[p].ttl, TRUE)
    /\ UNCHANGED <<now, locker, shutdown, nextTok, sawOther, kvVars, routeVars, cmdVars>>
    /\ TrackHeld

\* a deadline branch that puts once more and returns the error all the same
DeadlineFirePuts(p) ==
    /\ lpc[p] = "select"
    /\ CtxDone(p)
    /\ store' = dmPutIfNotFound(store, call[p].token, call[p].ttl, now).store
    /\ Failed(p, "LockNotAcquired")
    /\ UNCHANGED <<now, locker, shutdown, nextTok, sawOther, kvVars, routeVars, cmdVars>>
    /\ TrackHeld

\* case <-ctx.Done()
DeadlineFire(p) ==
    /\ lpc[p] = "select"
    /\ CtxDone(p)
    /\ Failed(p, "LockNotAcquired")
    /\ UNCHANGED <<now, store, locker, shutdown, nextTok, sawOther, kvVars, routeVars, cmdVars>>
    /\ TrackHeld

\* case <-dm.s.ctx.Done()
ShutdownFire(p) ==
    /\ lpc[p] = "select"
    /\ ServerGone
    /\ Failed(p, "server is gone")
    /\ UNCHANGED <<now, store, locker, shutdown, nextTok, sawOther, kvVars, routeVars, cmdVars>>
    /\ TrackHeld

\* LockContext.Unlock with the handle the contender got last; the owner is
\* this node, so unlock calls unlockKey
Unlock(p) ==
    /\ lpc[p] = "idle"
    /\ ~shutdown
    /\ handle[p] # 0
    /\ lpc' = [lpc EXCEPT ![p] = "unlockLocker"]
    /\ ret' = [ret EXCEPT ![p] = [NoRet EXCEPT !.op = "Unlock", !.err = "running"]]
    /\ sawOther' = [sawOther EXCEPT ![p] = Live(store, now) /\ store[1].value # handle[p]]
    /\ UNCHANGED <<now, store, locker, shutdown, call, handle, nextTok, grant, kvVars, routeVars, cmdVars>>
    /\ TrackHeld

\* the LockContext is a pointer: the contender that holds it hands it to
\* another one, which from then on calls Unlock on the same handle
Share(p, q) ==
    /\ p # q
    /\ ~shutdown
    /\ lpc[q] = "idle"
    /\ handle[p] # 0
    /\ handle[q] # handle[p]
    /\ handle' = [handle EXCEPT ![q] = handle[p]]
    /\ UNCHANGED <<now, store, locker, shutdown, lpc, call, ret, nextTok, grant,
                   sawOther, kvVars, routeVars, cmdVars>>
    /\ TrackHeld

\* an unlockKey that does not wait for the fine-grained locker
UnlockLockerFree(p) ==
    /\ lpc[p] = "unlockLocker"
    /\ locker' = p
    /\ lpc' = [lpc EXCEPT ![p] = "unlockGet"]
    /\ UNCHANGED <<now, store, shutdown, call, handle, ret, nextTok, grant, sawOther, kvVars, routeVars, cmdVars>>
    /\ TrackHeld

\* unlockKey: dm.s.locker.Lock(lkey) blocks while another call holds it
UnlockLocker(p) ==
    /\ lpc[p] = "unlockLocker"
    /\ locker = 0
    /\ locker' = p
    /\ lpc' = [lpc EXCEPT ![p] = "unlockGet"]
    /\ UNCHANGED <<now, store, shutdown, call, handle, ret, nextTok, grant, sawOther, kvVars, routeVars, cmdVars>>
    /\ TrackHeld

\* a verdict that looks only at the presence of the key
TokenCheckPresence(r, token) ==
    IF r.err = "KeyNotFound" THEN "NoSuchLock" ELSE "nil"

\* the verdict of unlockKey on what dm.get returned
TokenCheck(r, token) ==
    IF r.err = "KeyNotFound" THEN "NoSuchLock"
    ELSE IF r.val[1] # token THEN "NoSuchLock"
    ELSE "nil"

\* unlockKey: dm.get and the comparison with the token
UnlockGet(p) ==
    /\ lpc[p] = "unlockGet"
    /\ LET v == TokenCheck(dmGet(store, now), handle[p])
       IN IF v = "nil"
          THEN /\ lpc' = [lpc EXCEPT ![p] = "unlockDelete"]
               /\ UNCHANGED <<locker, ret>>
          ELSE /\ lpc' = [lpc EXCEPT ![p] = "idle"]
               /\ locker' = 0
               /\ ret' = [ret EXCEPT ![p] = [NoRet EXCEPT !.op = "Unlock", !.err = v]]
    /\ UNCHANGED <<now, store, shutdown, call, handle, nextTok, grant, sawOther, kvVars, routeVars, cmdVars>>
    /\ TrackHeld

\* unlockKey: dm.deleteKey, then the deferred release of the locker
UnlockDelete(p) ==
    /\ lpc[p] = "unlockDelete"
    /\ store' = dmDeleteKey(store).store
    /\ lpc' = [lpc EXCEPT ![p] = "idle"]
    /\ locker' = 0
    /\ ret' = [ret EXCEPT ![p] = [NoRet EXCEPT !.op = "Unlock", !.err = "nil"]]
    /\ grant' = [grant EXCEPT ![handle[p]] = [state |-> "released", expire |-> 0]]
    /\ UNCHANGED <<now, shutdown, call, handle, nextTok, sawOther, kvVars, routeVars, cmdVars>>
    /\ TrackHeld

\* the errors dm.get (other than ErrKeyNotFound) and dm.unmarshalValue hand
\* to unlockKey
GetFaults == {"get failed", "decode failed"}

\* unlockKey: dm.get or dm.unmarshalValue fails; the error is returned as it
\* is and the deferred function releases the locker
UnlockGetFault(p, e) ==
    /\ lpc[p] = "unlockGet"
    /\ e = "decode failed" => Live(store, now)
    /\ lpc' = [lpc EXCEPT ![p] = "idle"]
    /\ locker' = 0
    /\ ret' = [ret EXCEPT ![p] = [NoRet EXCEPT !.op = "Unlock", !.err = e]]
    /\ UNCHANGED <<now, store, shutdown, call, handle, nextTok, grant, sawOther, kvVars, routeVars, cmdVars>>
    /\ TrackHeld

\* a failed delete that returns with the locker still taken
UnlockDeleteFaultHolds(p) ==
    /\ lpc[p] = "unlockDelete"
    /\ lpc' = [lpc EXCEPT ![p] = "idle"]
    /\ ret' = [ret EXCEPT ![p] = [NoRet EXCEPT !.op = "Unlock",
                                               !.err = "unlock failed because of delete"]]
    /\ UNCHANGED <<now, store, locker, shutdown, call, handle, nextTok, grant, sawOther, kvVars, routeVars, cmdVars>>
    /\ TrackHeld

\* unlockKey: dm.deleteKey fails and leaves the key; the wrapped error is
\* returned and the deferred function releases the locker
UnlockDeleteFault(p) ==
    /\ lpc[p] = "unlockDelete"
    /\ lpc' = [lpc EXCEPT ![p] = "idle"]
    /\ locker' = 0
    /\ ret' = [ret EXCEPT ![p] = [NoRet EXCEPT !.op = "Unlock",
                                               !.err = "unlock failed because of delete"]]
    /\ UNCHANGED <<now, store, shutdown, call, handle, nextTok, grant, sawOther, kvVars, routeVars, cmdVars>>
    /\ TrackHeld

\* a put on the lock key from outside the lock protocol; as for the calls
\* above, the node takes no new call once it shuts down
OutOfBandPut ==
    /\ ~shutdown
    /\ Live(store, now)
    /\ store[1].value # OtherValue
    /\ store' = dmPutAlways(store, OtherValue, nilTimeout, now).store
    /\ UNCHANGED <<now, locker, shutdown, lpc, call, handle, ret, nextTok, grant,
                   sawOther, kvVars, routeVars, cmdVars>>
    /\ TrackHeld

Shutdown ==
    /\ ~shutdown
    /\ shutdown' = TRUE
    /\ UNCHANGED <<now, store, locker, lpc, call, handle, ret, nextTok, grant,
                   sawOther, kvVars, routeVars, cmdVars>>
    /\ TrackHeld

\* time passes while no select has a ready channel
Tick ==
    /\ now < MaxTime
    /\ \A p \in Procs : ~Ready(p)
    /\ now' = now + 1
    /\ UNCHANGED <<store, locker, shutdown, lpc, call, handle, ret, nextTok, grant,
                   sawOther, kvVars, routeVars, cmdVars>>
    /\ TrackHeld

SelectStep(p) == TimerFire(p) \/ DeadlineFire(p) \/ ShutdownFire(p)

LockNext ==
    \/ \E p \in Procs : \E d \in Deadlines : Lock(p, d)
    \/ \E p \in Procs : \E ttl \in LockTTLs : \E d \in Deadlines : LockWithTimeout(p, ttl, d)
    \/ \E p \in Procs : TimerFire(p)
    \/ \E p \in Procs : DeadlineFire(p)
    \/ \E p \in Procs : ShutdownFire(p)
    \/ \E p \in Procs : Unlock(p)
    \/ \E p, q \in Procs : Share(p, q)
    \/ \E p \in Procs : UnlockLocker(p)
    \/ \E p \in Procs : UnlockGet(p)
    \/ \E p \in Procs : UnlockDelete(p)
    \/ OutOfBandPut
    \/ Shutdown
    \/ Tick

(***************************************************************************)
(* Owner redirection.  One caller on member This takes the lock (without   *)
(* TTL) and unlocks it while the partition moves between the members; a    *)
(* move either carries the entry to the new owner or loses it.             *)
(***************************************************************************)
Members == 1..NumMembers

\* dm.s.rt.This()
This == 1

NoHandle == [token |-> 0, at |-> 0, released |-> FALSE]

InitRoute ==
    /\ owner = This
    /\ frag = [m \in Members |-> <<>>]
    /\ rhandle = NoHandle
    /\ rto = 0
    /\ rret = "none"
    /\ rtok = 1
    /\ fate = "none"
    /\ raced = FALSE

\* Lock on a key that is free at the owner: the conditional put runs on the
\* partition owner
RouteLock ==
    /\ rto = 0
    /\ rtok <= MaxTokens
    /\ ~Live(frag[owner], now)
    /\ frag' = [frag EXCEPT ![owner] = dmPutIfNotFound(frag[owner], rtok, nilTimeout, now).store]
    /\ rhandle' = [token |-> rtok, at |-> owner, released |-> FALSE]
    /\ rtok' = rtok + 1
    /\ rret' = "none"
    /\ fate' = "stayed"
    /\ raced' = FALSE
    /\ UNCHANGED <<owner, rto, kvVars, lockVars, cmdVars>>

\* the partition moves to member m; the fragment of the old owner is gone,
\* with migrated = FALSE the entry is lost on the way
Move(m, migrated) ==
    /\ m # owner
    /\ owner' = m
    /\ frag' = [frag EXCEPT ![m] = IF migrated THEN frag[owner] ELSE <<>>,
                            ![owner] = <<>>]
    /\ fate' = IF frag[owner] # <<>> /\ frag[owner][1].value = rhandle.token
               THEN IF migrated THEN "migrated" ELSE "lost"
               ELSE fate
    /\ raced' = (raced \/ rto # 0)
    /\ UNCHANGED <<rhandle, rto, rret, rtok, kvVars, lockVars, cmdVars>>

\* an unlock that goes to the member that owned the partition at the acquire
OwnerAtAcquire(cur, acq) == acq

\* dm.s.primary.PartitionByHKey(hkey).Owner(), looked up by the call
PartitionOwner(cur, acq) == cur

\* LockContext.Unlock -> unlock: the owner is looked up; the call goes to
\* unlockKey when it is this member and into an Unlock request otherwise
RouteUnlock ==
    /\ rto = 0
    /\ rhandle.token # 0
    /\ rto' = PartitionOwner(owner, rhandle.at)
    /\ rret' = "running"
    /\ raced' = FALSE
    /\ UNCHANGED <<owner, frag, rhandle, rtok, fate, kvVars, lockVars, cmdVars>>

\* unlockKey on the member the call was routed to, directly on This or by
\* the handler of the Unlock request on another member
RouteUnlockKey ==
    /\ rto # 0
    /\ LET v == TokenCheck(dmGet(frag[rto], now), rhandle.token)
       IN /\ rret' = v
          /\ frag' = IF v = "nil" THEN [frag EXCEPT ![rto] = dmDeleteKey(frag[rto]).store]
                     ELSE frag
          /\ rhandle' = IF v = "nil" THEN [rhandle EXCEPT !.released = TRUE] ELSE rhandle
    /\ rto' = 0
    /\ UNCHANGED <<owner, rtok, fate, raced, kvVars, lockVars, cmdVars>>

RouteNext ==
    \/ RouteLock
    \/ \E m \in Members : \E migrated \in BOOLEAN : Move(m, migrated)
    \/ RouteUnlock
    \/ RouteUnlockKey

(***************************************************************************)
(* The handler of the put command: options of the command -> putConfig ->  *)
(* dm.put.  Durations are kept in milliseconds.                            *)
(***************************************************************************)
\* the commands ParsePutCommand hands over: flags NX and XX, and EX (seconds),
\* PX (milliseconds), EXAT (seconds), PXAT (milliseconds), 0 = not given
PutCommands ==
    [NX : BOOLEAN, XX : BOOLEAN, EX : {0, 2}, PX : {0, 3}, EXAT : {0, 5}, PXAT : {0, 7}]

NoCommand == [NX |-> FALSE, XX |-> FALSE, EX |-> 0, PX |-> 0, EXAT |-> 0, PXAT |-> 0]

\* var pc putConfig
ZeroConfig ==
    [HasNX |-> FALSE, HasXX |-> FALSE, HasEX |-> FALSE, EX |-> 0, HasPX |-> FALSE, PX |-> 0,
     HasEXAT |-> FALSE, EXAT |-> 0, HasPXAT |-> FALSE, PXAT |-> 0]

\* time.Second and time.Millisecond, in milliseconds
SecondMs == 1000
MillisecondMs == 1

\* the PutOption functions applied to a putConfig
OptNX(pc) == [pc EXCEPT !.HasNX = TRUE]
OptXX(pc) == [pc EXCEPT !.HasXX = TRUE]
OptEX(pc, d) == [pc EXCEPT !.HasEX = TRUE, !.EX = d]
OptPX(pc, d) == [pc EXCEPT !.HasPX = TRUE, !.PX = d]
OptEXAT(pc, d) == [pc EXCEPT !.HasEXAT = TRUE, !.EXAT = d]
OptPXAT(pc, d) == [pc EXCEPT !.HasPXAT = TRUE, !.PXAT = d]

\* the switch of putCommandHandler: the first case that matches appends its
\* option, no other case runs; then the options are applied to pc
BuildConfig(c) ==
    IF c.NX THEN OptNX(ZeroConfig)
    ELSE IF c.XX THEN OptXX(ZeroConfig)
    ELSE IF c.EX # 0 THEN OptEX(ZeroConfig, c.EX * SecondMs)
    ELSE IF c.PX # 0 THEN OptPX(ZeroConfig, c.PX * MillisecondMs)
    ELSE IF c.EXAT # 0 THEN OptEXAT(ZeroConfig, c.EXAT * SecondMs)
    ELSE IF c.PXAT # 0 THEN OptPXAT(ZeroConfig, c.PXAT * MillisecondMs)
    ELSE ZeroConfig

\* the expiry dm.put gives the entry: a duration from now, an absolute time,
\* or none
ConfigTTL(pc) ==
    IF pc.HasEX THEN [kind |-> "in", ms |-> pc.EX]
    ELSE IF pc.HasPX THEN [kind |-> "in", ms |-> pc.PX]
    ELSE IF pc.HasEXAT THEN [kind |-> "at", ms |-> pc.EXAT]
    ELSE IF pc.HasPXAT THEN [kind |-> "at", ms |-> pc.PXAT]
    ELSE [kind |-> "none", ms |-> 0]

\* dm.put with a putConfig: NX fails on a present key, XX on an absent one
dmPutConfig(st, value, pc) ==
    IF pc.HasNX /\ st # <<>> THEN [store |-> st, err |-> "KeyFound"]
    ELSE IF pc.HasXX /\ st = <<>> THEN [store |-> st, err |-> "KeyNotFound"]
    ELSE [store |-> <<[value |-> value, ttl |-> ConfigTTL(pc)]>>, err |-> "nil"]

\* the values the commands carry
CmdValues == {21, 22}

InitCmd ==
    /\ cmd = NoCommand
    /\ conf = ZeroConfig
    /\ creply = "none"
    /\ cstore = <<>>

putCommandHandler(c, value) ==
    /\ LET pc == BuildConfig(c)
           r == dmPutConfig(cstore, value, pc)
       IN /\ conf' = pc
          /\ cstore' = r.store
          /\ creply' = IF r.err = "nil" THEN "OK" ELSE r.err
    /\ cmd' = c
    /\ UNCHANGED <<kvVars, lockVars, routeVars>>

\* the key is deleted by another command
DelCommand ==
    /\ cstore # <<>>
    /\ cstore' = <<>>
    /\ cmd' = NoCommand
    /\ conf' = ZeroConfig
    /\ creply' = "none"
    /\ UNCHANGED <<kvVars, lockVars, routeVars>>

CmdNext ==
    \/ \E c \in PutCommands : \E value \in CmdValues : putCommandHandler(c, value)
    \/ DelCommand

vars == <<kvVars, lockVars, routeVars, cmdVars>>

Init == InitKV /\ InitLock /\ InitRoute /\ InitCmd

Next == NextKV

\* the storage engine
Spec == Init /\ [][Next]_vars

\* the lock protocol and the routing run next to one engine, which stays as
\* New left it
LockInit == Init /\ tables = New(TableSize)

\* the lock protocol
LockSpec == LockInit /\ [][LockNext]_vars

\* the handler of the put command
CmdSpec == LockInit /\ [][CmdNext]_vars

\* unlock across partition moves
RouteSpec == LockInit /\ [][RouteNext]_vars

\* the lock protocol with a running clock and contenders whose select
\* takes a ready channel
FairLockSpec ==
    /\ LockInit
    /\ [][LockNext]_vars
    /\ WF_vars(Tick)
    /\ \A p \in Procs : WF_vars(SelectStep(p))

\* one step of an unlockKey that holds or waits for the locker
UnlockStep(p) ==
    \/ UnlockGet(p)
    \/ UnlockDelete(p)
    \/ \E e \in GetFaults : UnlockGetFault(p, e)
    \/ UnlockDeleteFault(p)

\* Lock and Unlock on a running node with failing dm.get, dm.unmarshalValue
\* and dm.deleteKey
FaultNext ==
    \/ \E p \in Procs : \E d \in Deadlines : Lock(p, d)
    \/ \E p \in Procs : TimerFire(p)
    \/ \E p \in Procs : DeadlineFire(p)
    \/ \E p \in Procs : Unlock(p)
    \/ \E p, q \in Procs : Share(p, q)
    \/ \E p \in Procs : UnlockLocker(p)
    \/ \E p \in Procs : UnlockGet(p)
    \/ \E p \in Procs : UnlockDelete(p)
    \/ OutOfBandPut
    \/ Tick
    \/ \E p \in Procs : \E e \in GetFaults : UnlockGetFault(p, e)
    \/ \E p \in Procs : UnlockDeleteFault(p)

\* every unlockKey goes on, and the locker does not starve a waiting call
FaultSpec ==
    /\ LockInit
    /\ [][FaultNext]_vars
    /\ WF_vars(Tick)
    /\ \A p \in Procs : WF_vars(TimerFire(p) \/ DeadlineFire(p))
    /\ \A p \in Procs : WF_vars(UnlockStep(p))
    /\ \A p \in Procs : SF_vars(UnlockLocker(p))

(***************************************************************************)
(* Properties of the storage engine                                        *)
(***************************************************************************)
Newest(ts) == ts[Len(ts)]

\* highest chain index whose table holds h (0: none)
NewestHolding(ts, h) ==
    IF \E i \in 1..Len(ts) : Has(ts[i], h)
    THEN CHOOSE i \in 1..Len(ts) : Has(ts[i], h) /\ \A j \in (i + 1)..Len(ts) : ~Has(ts[j], h)
    ELSE 0

\* C3: immediately after Delete(h) has returned, Get(h) is KeyNotFound,
\* also when more than one table held h.
C3_DeleteTotality ==
    kvOp = "Delete" => Get(tables, kvArg) = NotFound

C5_ChainShadowing ==
    \A h \in HKeys :
        \A i, j \in 1..Len(tables) :
            (i < j /\ Has(tables[i], h) /\ Has(tables[j], h)) =>
                LET t == tables[NewestHolding(tables, h)]
                IN /\ NewestHolding(tables, h) >= j
                   /\ Get(tables, h) = Found(Decode(t.memory, t.hkeys[h]))
                   /\ GetRaw(tables, h) = Found(RawAt(t.memory, t.hkeys[h]))
                   /\ GetTTL(tables, h) = Found(TTLAt(t.memory, t.hkeys[h]))
                   /\ GetKey(tables, h) = Found(KeyAt(t.memory, t.hkeys[h]))

\* two tables hold the same hkey with entries that differ in value and TTL
C5_Witness ==
    \E h \in HKeys :
        \E i, j \in 1..Len(tables) :
            /\ i < j
            /\ Has(tables[i], h)
            /\ Has(tables[j], h)
            /\ ValueAt(tables[i].memory, tables[i].hkeys[h])
                  # ValueAt(tables[j].memory, tables[j].hkeys[h])
            /\ TTLAt(tables[i].memory, tables[i].hkeys[h])
                  # TTLAt(tables[j].memory, tables[j].hkeys[h])

\* C6: the engine that Import builds from the bytes of Export of a
\* one-table engine has one table and the same Len, Stats and Get results.
C6_ExportRoundTrip ==
    fresh # Nil =>
        /\ Len(tables) = 1
        /\ Len(fresh) = 1
        /\ KVLen(fresh) = KVLen(tables)
        /\ Stats(fresh) = Stats(tables)
        /\ \A h \in HKeys : Get(fresh, h) = Get(tables, h)

\* a full table with live entries and garbage went through Export / Import
C6_Witness ==
    /\ fresh # Nil
    /\ KVLen(tables) >= 1
    /\ tables[1].garbage > 0
    /\ tables[1].offset = tables[1].allocated

\* C7: Export returns bytes exactly when the chain has one table; on a
\* longer chain it returns Fragmented and no bytes; the engine is unchanged.
C7_ExportOnlyOneTable ==
    /\ [](kvOp = "Export" =>
            /\ (kvErr = "nil") <=> (Len(tables) = 1)
            /\ (blob # Nil) <=> (Len(tables) = 1)
            /\ Len(tables) > 1 => kvErr = "Fragmented")
    /\ [][kvOp' = "Export" => tables' = tables]_vars

\* Export was refused on a chain of two tables
C7_Witness ==
    /\ kvOp = "Export"
    /\ Len(tables) > 1
    /\ kvErr = "Fragmented"

\* C8: every Put / PutRaw comes back, with nil or Fragmented and with the
\* entry stored.
C8_PutTerminates ==
    kvOp \in {"Put", "PutRaw"} =>
        /\ kvErr \in {"nil", "Fragmented"}
        /\ Has(Newest(tables), kvArg)

\* C9: a Put that returns has returned Fragmented exactly when it appended a
\* table; the entry is then in the newest table; a Put that fits in the
\* newest table returns nil and keeps the chain length.
C9_FragmentedIffAppended ==
    [][(nops' = nops + 1 /\ kvOp' \in {"Put", "PutRaw"} /\ kvErr' # "running") =>
        /\ (kvErr' = "Fragmented") <=> (Len(tables') > Len(tables))
        /\ (kvErr' = "nil") <=> (Len(tables') = Len(tables))
        /\ Has(tables'[Len(tables')], kvArg')
        /\ Decode(tables'[Len(tables')].memory, tables'[Len(tables')].hkeys[kvArg'])
              = lastPut'[kvArg'][1]
        /\ TableFits(Newest(tables), Encode(lastPut'[kvArg'][1])) =>
              (kvErr' = "nil" /\ Len(tables') = Len(tables))]_vars

\* a Put returned Fragmented after appending a table
C9_Witness ==
    /\ kvOp \in {"Put", "PutRaw"}
    /\ kvErr = "Fragmented"
    /\ Len(tables) >= 2
    /\ Has(Newest(tables), kvArg)

(***************************************************************************)
(* Properties of the lock protocol                                         *)
(***************************************************************************)
\* the handle with token t was returned, its Unlock has not returned nil and
\* its TTL has not elapsed
Valid(t) ==
    /\ grant[t].state = "held"
    /\ (grant[t].expire = 0 \/ now < grant[t].expire)

\* C1: at every instant at most one returned handle is neither released by
\* its own Unlock nor past its TTL.
C1_MutualExclusion ==
    Cardinality({t \in Tokens : Valid(t)}) <= 1

\* C2: an Unlock called with token T' while the key is held with another
\* value never passes the token check and returns NoSuchLock.
C2_TokenExclusivity ==
    \A p \in Procs :
        sawOther[p] =>
            /\ lpc[p] \in {"unlockLocker", "unlockGet", "idle"}
            /\ (lpc[p] = "idle" /\ ret[p].op = "Unlock") => ret[p].err = "NoSuchLock"

\* an Unlock with an old handle returned NoSuchLock while the key is held
\* with the token of a later acquire
C2_Witness ==
    \E p \in Procs :
        /\ sawOther[p]
        /\ lpc[p] = "idle"
        /\ ret[p].op = "Unlock"
        /\ ret[p].err = "NoSuchLock"
        /\ Live(store, now)
        /\ store[1].value \in Tokens
        /\ store[1].value # handle[p]
        /\ Valid(store[1].value)

\* C10: an acquire that waited on a key held during the whole call returns
\* no handle; unless the server shuts down it returns LockNotAcquired, not
\* before its deadline, at most one poll period after it and after at most
\* one more put; and every waiting acquire returns.
C10_DeadlineObedience ==
    /\ [](\A p \in Procs :
            (lpc[p] = "idle" /\ ret[p].op = "Lock" /\ ret[p].held) =>
                /\ ret[p].err \in {"LockNotAcquired", "server is gone"}
                /\ ret[p].err = "server is gone" => shutdown
                /\ ret[p].err = "LockNotAcquired" =>
                      (ret[p].late >= 0 /\ ret[p].late <= PollPeriod /\ ret[p].latePuts <= 1))
    /\ \A p \in Procs : (lpc[p] = "select") ~> (lpc[p] = "idle")

\* an acquire polled once before its deadline, once more at the deadline,
\* and returned LockNotAcquired on a key that was held all the time
C10_Witness ==
    \E p \in Procs :
        /\ lpc[p] = "idle"
        /\ ret[p].op = "Lock"
        /\ ret[p].err = "LockNotAcquired"
        /\ ret[p].held
        /\ ret[p].latePuts = 1
        /\ ~shutdown

\* C11: of the Unlock calls on one handle, issued one after another or
\* concurrently, at most one returns nil; an Unlock that reads the key after
\* the handle was released returns NoSuchLock.
C11_ReleaseOnce ==
    [][\A p \in Procs :
          /\ (lpc[p] = "unlockDelete" /\ lpc'[p] = "idle") =>
                grant[handle[p]].state = "held"
          /\ (lpc[p] = "unlockGet" /\ lpc'[p] # "unlockGet"
                /\ grant[handle[p]].state = "released") =>
                (lpc'[p] = "idle" /\ ret'[p].err = "NoSuchLock")]_vars

\* two contenders called Unlock on the same handle: one got nil, the other
\* NoSuchLock
C11_Witness ==
    \E p, q \in Procs :
        /\ p # q
        /\ handle[p] # 0
        /\ handle[p] = handle[q]
        /\ grant[handle[p]].state = "released"
        /\ lpc[p] = "idle" /\ ret[p].op = "Unlock" /\ ret[p].err = "nil"
        /\ lpc[q] = "idle" /\ ret[q].op = "Unlock" /\ ret[q].err = "NoSuchLock"

\* the handle with token t was acquired with a TTL that has elapsed, and no
\* Unlock released it
Lapsed(t) ==
    /\ grant[t].state = "held"
    /\ grant[t].expire # 0
    /\ now >= grant[t].expire

\* C12: once the TTL of a lock taken with LockWithTimeout has elapsed and
\* nobody unlocked it, the key no longer reads as held with its token; an
\* acquire that finds no live entry gets the lock at once; an Unlock that
\* reads the key for the lapsed handle returns NoSuchLock.
C12_TTLAutoRelease ==
    /\ [](\A t \in Tokens : Lapsed(t) => dmGet(store, now) # Found(t))
    /\ [][(nextTok' = nextTok + 1 /\ ~Live(store, now)) =>
             \E p \in Procs :
                /\ lpc[p] = "idle" /\ lpc'[p] = "idle"
                /\ handle'[p] = nextTok
                /\ ret'[p].op = "Lock" /\ ret'[p].err = "nil"
                /\ grant'[nextTok].state = "held"
                /\ store' # <<>> /\ store'[1].value = nextTok]_vars
    /\ [][\A p \in Procs :
             (lpc[p] = "unlockGet" /\ lpc'[p] # "unlockGet" /\ Lapsed(handle[p])) =>
                (lpc'[p] = "idle" /\ ret'[p].err = "NoSuchLock")]_vars

\* a lock with a TTL lapsed without Unlock, a later Lock got the key, and
\* the Unlock on the lapsed handle returned NoSuchLock
C12_Witness ==
    \E p, q \in Procs :
        /\ p # q
        /\ handle[p] # 0
        /\ Lapsed(handle[p])
        /\ lpc[p] = "idle" /\ ret[p].op = "Unlock" /\ ret[p].err = "NoSuchLock"
        /\ handle[q] > handle[p]
        /\ ret[q].op = "Lock" /\ ret[q].err = "nil"
        /\ Valid(handle[q])

\* the acquire call that drew token t returned an error: the token was drawn,
\* no call is under way with it and no handle carries it
FailedAcquire(t) ==
    /\ t < nextTok
    /\ grant[t].state = "none"
    /\ \A p \in Procs : call[p].token # t

C14_GarbageMonotone ==
    [][/\ Len(tables') >= Len(tables)
       /\ \A i \in 1..Len(tables) :
             /\ tables'[i].allocated = tables[i].allocated
             /\ tables'[i].garbage >= tables[i].garbage]_vars

\* UpdateTTL found its key in a frozen table that carries garbage, next to a
\* newer table
C14_Witness ==
    /\ kvOp = "UpdateTTL"
    /\ kvErr = "nil"
    /\ Len(tables) >= 2
    /\ NewestHolding(tables, kvArg) < Len(tables)
    /\ tables[NewestHolding(tables, kvArg)].garbage > 0

\* the table of index i after the scan of Delete(h) has run on chain ts
AfterScan(ts, h, i) == IF Has(ts[i], h) /\ NewestHolding(ts, h) = i
                       THEN TableDelete(ts[i], h) ELSE ts[i]

\* C18: Delete appends one empty table and returns Fragmented exactly when
\* the chain has one table whose garbage, after the deletion, is at least
\* 40% of its allocated size; otherwise it returns nil and the chain keeps
\* its length.
C18_DeleteThreshold ==
    [][(kvOp' = "Delete" /\ nops' = nops + 1) =>
          LET crossed == /\ Len(tables) = 1
                         /\ 100 * tables'[1].garbage >= 40 * tables'[1].allocated
          IN /\ tables'[1] = AfterScan(tables, kvArg', 1)
             /\ crossed =>
                   /\ kvErr' = "Fragmented"
                   /\ Len(tables') = 2
                   /\ tables'[2].offset = 0
                   /\ DOMAIN tables'[2].hkeys = {}
             /\ ~crossed =>
                   /\ kvErr' = "nil"
                   /\ Len(tables') = Len(tables)]_vars

\* a Delete on a one-table chain brought the garbage to exactly 40% of the
\* allocated size and appended a table
C18_Witness ==
    /\ kvOp = "Delete"
    /\ kvErr = "Fragmented"
    /\ Len(tables) = 2
    /\ 100 * tables[1].garbage = 40 * tables[1].allocated
    /\ tables[1].inuse > 0

Max(a, b) == IF a >= b THEN a ELSE b

\* C19: the first table a Put / PutRaw appends on overflow has allocated size
\* max(minimumSize, 2 * Inuse()) with Inuse() taken when it is allocated,
\* and no table it appends is smaller than minimumSize.
C19_GrowthPolicy ==
    [][(kvOp' \in {"Put", "PutRaw"} /\ nops' = nops + 1 /\ Len(tables') > Len(tables)) =>
          /\ tables'[Len(tables) + 1].allocated = Max(minimumSize, 2 * Inuse(tables))
          /\ \A i \in (Len(tables) + 1)..Len(tables') :
                tables'[i].allocated >= minimumSize]_vars

Accounted(t) == t.inuse + t.garbage = t.offset /\ t.offset <= t.allocated

\* C20: every table of the chain, and the table of an engine built by
\* Import, has inuse + garbage = offset and offset <= allocated.
C20_TableAccounting ==
    /\ \A i \in 1..Len(tables) : Accounted(tables[i])
    /\ \A i \in 1..Len(fresh) : Accounted(fresh[i])

\* Import built a table that holds live entries and garbage and has room left
C20_Witness ==
    /\ fresh # Nil
    /\ fresh[1].inuse > 0
    /\ fresh[1].garbage > 0
    /\ fresh[1].offset < fresh[1].allocated

\* C21: a Put / PutRaw leaves every table but the last one of the chain as
\* it was, memory included; the entry goes into the last table, and a table
\* appended before the one that takes the entry stays empty.
C21_WritesToNewest ==
    [][(kvOp' \in {"Put", "PutRaw"} /\ nops' = nops + 1) =>
          /\ Len(tables') >= Len(tables)
          /\ \A i \in 1..(Len(tables') - 1) :
                IF i <= Len(tables)
                THEN tables'[i] = tables[i]
                ELSE tables'[i].offset = 0 /\ DOMAIN tables'[i].hkeys = {}
          /\ kvErr' # "running" =>
                /\ Has(tables'[Len(tables')], kvArg')
                /\ tables'[Len(tables')].hkeys[kvArg'] = tables'[Len(tables')].offset
                      - FrameLen(tables'[Len(tables')].memory,
                                 tables'[Len(tables')].hkeys[kvArg'])]_vars

\* a Put went into the newest table although a frozen table had room for its
\* frame
C21_Witness ==
    /\ kvOp \in {"Put", "PutRaw"}
    /\ kvErr = "nil"
    /\ Len(tables) >= 2
    /\ Has(Newest(tables), kvArg)
    /\ \E i \in 1..(Len(tables) - 1) :
          TableFits(tables[i], RawAt(Newest(tables).memory, Newest(tables).hkeys[kvArg]))

\* C22: UpdateTTL on an hkey whose newest copy is in a frozen table leaves
\* the memory of that table as it was and puts the entry, with the new TTL,
\* into the newest table; UpdateTTL on an hkey that no table holds returns
\* KeyNotFound and changes no table.
C22_UpdateTTLRewrites ==
    [][(kvOp' = "UpdateTTL" /\ nops' = nops + 1) =>
          LET h == kvArg'
              i == NewestHolding(tables, h)
          IN /\ i = 0 => (kvErr' = "KeyNotFound" /\ tables' = tables)
             /\ (i > 0 /\ i < Len(tables)) =>
                   /\ tables'[i].memory = tables[i].memory
                   /\ Has(tables'[Len(tables')], h)]_vars

\* C24: Len() is the number of distinct hkeys for which Get succeeds, also
\* when an hkey is in the index of more than one table.
C24_LenCountsKeys ==
    KVLen(tables) = Cardinality({h \in HKeys : Get(tables, h).err = "nil"})

\* C17: once f has returned false, Range calls f on no further hkey, in the
\* table it is in or in an older one: the call for which f returned false
\* (the one on hkey kvArg) is the last call of the Range.
C17_RangeStops ==
    kvOp = "Range" =>
        \A n \in 1..Len(calls) : calls[n].hkey = kvArg => n = Len(calls)

(***************************************************************************)
(* Properties of the routing of Unlock                                     *)
(***************************************************************************)
\* C15: Unlock looks the owner up when it is called.  When no move crosses
\* the call: for a handle whose entry moved with the partition, the first
\* Unlock returns nil and leaves the key absent on the new owner; for a
\* handle whose entry was lost in a move, Unlock returns NoSuchLock.
C15_OwnerPerCall ==
    /\ [][(rto = 0 /\ rto' # 0) => rto' = owner]_vars
    /\ [][(rto # 0 /\ rto' = 0 /\ ~raced) =>
            /\ (fate = "migrated" /\ ~rhandle.released) =>
                  (rret' = "nil" /\ frag'[owner] = <<>> /\ rhandle'.released)
            /\ fate = "lost" => (rret' = "NoSuchLock" /\ frag' = frag)]_vars

\* a handle acquired on one member was unlocked with nil on another member,
\* to which the partition had moved with the entry
C15_Witness ==
    /\ rto = 0
    /\ rret = "nil"
    /\ rhandle.released
    /\ fate = "migrated"
    /\ ~raced
    /\ rhandle.at # owner
    /\ owner # This
    /\ frag[owner] = <<>>

(***************************************************************************)
(* Properties of the lock protocol, continued                             *)
(***************************************************************************)
\* C16: an Unlock presenting token T never removes the entry of a key that
\* is held with another token T': when the delete of an Unlock runs, the key
\* is not held with a token other than the one of its handle.
C16_UnlockFrame ==
    [][\A p \in Procs :
          (lpc[p] = "unlockDelete" /\ lpc'[p] = "idle") =>
             ~(/\ Live(store, now)
               /\ store[1].value \in Tokens
               /\ store[1].value # handle[p])]_vars

\* C23: once shutdown is signalled, an acquire waiting in the retry loop
\* returns: with "server is gone" and no handle, unless its deadline is due
\* (LockNotAcquired) or a retry put stores its token (nil); after the signal
\* it makes at most the one put of a timer that was due, and it always
\* comes back.
C23_ShutdownExit ==
    /\ [](\A p \in Procs : call[p].gonePuts <= 1)
    /\ [][\A p \in Procs :
            (shutdown /\ lpc[p] = "select" /\ lpc'[p] = "idle") =>
               /\ ret'[p].err \in {"server is gone", "LockNotAcquired", "nil"}
               /\ ret'[p].err = "server is gone" => (handle'[p] = handle[p] /\ store' = store)
               /\ ret'[p].err = "LockNotAcquired" => CtxDone(p)
               /\ ret'[p].err = "nil" =>
                     (TimerReady(p) /\ store' # <<>> /\ store'[1].value = call[p].token)]_vars
    /\ \A p \in Procs : (shutdown /\ lpc[p] = "select") ~> (lpc[p] = "idle")

\* an acquire that waited on a key held all the time returned "server is
\* gone" before its deadline
C23_Witness ==
    \E p \in Procs :
        /\ shutdown
        /\ lpc[p] = "idle"
        /\ ret[p].op = "Lock"
        /\ ret[p].err = "server is gone"
        /\ ret[p].held
        /\ ret[p].late < 0
        /\ Live(store, now)

(***************************************************************************)
(* Properties of the put command                                           *)
(***************************************************************************)
CarriesTTL(c) == c.EX # 0 \/ c.PX # 0 \/ c.EXAT # 0 \/ c.PXAT # 0

\* C25: for a put command that carries a condition (NX or XX) and a TTL
\* (EX, PX, EXAT or PXAT) the putConfig holds the condition and the TTL, and
\* the entry such a put stores expires.
C25_ConditionAndTTL ==
    ((cmd.NX \/ cmd.XX) /\ CarriesTTL(cmd)) =>
        /\ conf.HasNX = cmd.NX
        /\ conf.HasXX = cmd.XX
        /\ ConfigTTL(conf).kind # "none"
        /\ creply = "OK" => cstore[1].ttl.kind # "none"

(***************************************************************************)
(* Properties of unlockKey                                                 *)
(***************************************************************************)
\* C26: the fine-grained locker is held only by an unlockKey in progress:
\* every exit of unlockKey (NoSuchLock, get error, decode error, token
\* mismatch, delete failure, success) leaves it free, and an Unlock that
\* waits for the locker returns.
C26_LockerReleased ==
    /\ [](locker # 0 => lpc[locker] \in {"unlockGet", "unlockDelete"})
    /\ [][\A p \in Procs :
            (lpc[p] \in {"unlockGet", "unlockDelete"} /\ lpc'[p] = "idle") =>
                (locker = p /\ locker' = 0)]_vars
    /\ \A p \in Procs : (lpc[p] = "unlockLocker") ~> (lpc[p] = "idle")

\* an unlockKey holds the locker after the unlockKey of the other contender
\* returned with a failed delete
C26_Witness ==
    \E p, q \in Procs :
        /\ p # q
        /\ lpc[p] = "idle"
        /\ ret[p].op = "Unlock"
        /\ ret[p].err = "unlock failed because of delete"
        /\ locker = q
        /\ lpc[q] = "unlockGet"

(***************************************************************************)
(* Properties of the chain of tables                                       *)
(***************************************************************************)
\* C27: the chain has at least one table and no operation of the engine
\* (Put, PutRaw, Delete, UpdateTTL, Range, MatchOnKey, Export) makes it
\* shorter; so an Export on a chain that has grown beyond one table returns
\* Fragmented.
C27_ChainNeverShrinks ==
    /\ [](Len(tables) >= 1)
    /\ [][Len(tables') >= Len(tables)]_vars
    /\ [][(Len(tables) > 1 /\ kvOp' = "Export") => kvErr' = "Fragmented"]_vars

\* Export was refused after a Delete that crossed the threshold had appended
\* a table, which nothing was written to since
C27_Witness ==
    /\ kvOp = "Export"
    /\ kvErr = "Fragmented"
    /\ Len(tables) = 2
    /\ tables[2].offset = 0
    /\ tables[1].garbage > 0

====
